---- MODULE Spec2Model ----
(***************************************************************************)
(* Settings resolution of vault-cli (src/vault_cli/settings.py).           *)
(*                                                                         *)
(* Python values are tagged records with one shape, so that any two of     *)
(* them can be compared: t is the Python type, s the payload of a scalar   *)
(* and m the content of a dict (a function from key strings to values).    *)
(* Text the code inspects character by character (environment names and    *)
(* values, keys of a parsed file, file contents) is a sequence of          *)
(* one-character strings; Pack turns it into the string used as a key or   *)
(* a payload.                                                              *)
(***************************************************************************)
EXTENDS Integers, Sequences, FiniteSets, TLC

VARIABLES
    fs,      \* the file system: config directory listing, config files, secret files
    cache,   \* lru_cache of build_config_from_files, most recently used first
    stdin,   \* what is still unread on standard input
    last,    \* the last get_vault_options call: its inputs and its outcome
    ncalls,  \* resolution calls made so far in this process
    used,    \* history: the candidate lists resolved so far, the latest first
    pc,      \* position of a single function call: "input", then the function's name
    arg,     \* the arguments of that function call
    ret      \* what that function call returned or raised

vars == <<fs, cache, stdin, last, ncalls, used, pc, arg, ret>>

procVars == <<fs, cache, stdin, last, ncalls, used>>

callVars == <<pc, arg, ret>>

----------------------------------------------------------------------------
(* Python values *)

NoMap == [k \in {} |-> k]

PyNone == [t |-> "NoneType", s |-> "", m |-> NoMap]

PyStr(x) == [t |-> "str", s |-> x, m |-> NoMap]

PyBool(b) == [t |-> "bool", s |-> IF b THEN "True" ELSE "False", m |-> NoMap]

PyInt(x) == [t |-> "int", s |-> x, m |-> NoMap]

PyList(x) == [t |-> "list", s |-> x, m |-> NoMap]

PyDict(f) == [t |-> "dict", s |-> "", m |-> f]

IsDict(v) == v.t = "dict"

IsStr(v) == v.t = "str"

IsBool(v) == v.t = "bool"

\* bool(v): None, "", False, 0, [] and {} are falsy
Truthy(v) ==
    CASE v.t = "NoneType" -> FALSE
      [] v.t = "str" -> v.s # ""
      [] v.t = "bool" -> v.s = "True"
      [] v.t = "int" -> v.s # "0"
      [] v.t = "list" -> v.s # "[]"
      [] v.t = "dict" -> DOMAIN v.m # {}

\* d.get(key): None when the key is missing
Get(d, key) == IF key \in DOMAIN d THEN d[key] ELSE PyNone

\* d[key] = value
Put(d, key, value) == [k \in DOMAIN d \cup {key} |-> IF k = key THEN value ELSE d[k]]

\* d.pop(key, None): the dict without the key
Pop(d, key) == [k \in DOMAIN d \ {key} |-> d[k]]

\* d.update(other): every key of other is rebound to other's value
DictUpdate(d, other) ==
    [k \in DOMAIN d \cup DOMAIN other |-> IF k \in DOMAIN other THEN other[k] ELSE d[k]]

----------------------------------------------------------------------------
(* Text *)

RECURSIVE Pack(_)
Pack(cs) == IF cs = <<>> THEN "" ELSE Head(cs) \o Pack(Tail(cs))

UpperCase == <<"A","B","C","D","E","F","G","H","I","J","K","L","M",
               "N","O","P","Q","R","S","T","U","V","W","X","Y","Z">>

LowerCase == <<"a","b","c","d","e","f","g","h","i","j","k","l","m",
               "n","o","p","q","r","s","t","u","v","w","x","y","z">>

LowerChar(c) ==
    IF \E i \in DOMAIN UpperCase : UpperCase[i] = c
    THEN LowerCase[CHOOSE i \in DOMAIN UpperCase : UpperCase[i] = c]
    ELSE c

\* str.lower()
Lower(cs) == [i \in DOMAIN cs |-> LowerChar(cs[i])]

\* str.startswith(prefix)
StartsWith(cs, prefix) ==
    Len(cs) >= Len(prefix) /\ SubSeq(cs, 1, Len(prefix)) = prefix

\* str.replace(old, new) for one-character old and new
Replace(cs, old, new) == [i \in DOMAIN cs |-> IF cs[i] = old THEN new ELSE cs[i]]

Whitespace == {" ", "\n", "\t"}

\* str.strip()
RECURSIVE LStrip(_)
LStrip(cs) ==
    IF cs # <<>> /\ Head(cs) \in Whitespace THEN LStrip(Tail(cs)) ELSE cs

RECURSIVE RStrip(_)
RStrip(cs) ==
    IF cs # <<>> /\ cs[Len(cs)] \in Whitespace THEN RStrip(SubSeq(cs, 1, Len(cs) - 1)) ELSE cs

Strip(cs) == RStrip(LStrip(cs))

----------------------------------------------------------------------------
(* recursive_update *)

\* a mutant: the newer value always replaces the one in the target
RecursiveUpdateNoRecursion(target, to_copy) == DictUpdate(target, to_copy)

RECURSIVE RecursiveUpdate(_, _)
RECURSIVE RecursiveUpdateLoop(_, _, _)

\* the loop of recursive_update over the keys of to_copy still to visit;
\* the value is the content of target when the loop ends
RecursiveUpdateLoop(target, to_copy, keys) ==
    IF keys = {} THEN target
    ELSE LET key == CHOOSE k \in keys : TRUE
             element_to_copy == to_copy[key]
             target_element == Get(target, key)
         IN  IF IsDict(element_to_copy) /\ IsDict(target_element)
             THEN RecursiveUpdateLoop(
                      [target EXCEPT ![key] =
                          PyDict(RecursiveUpdate(target_element.m, element_to_copy.m))],
                      to_copy, keys \ {key})
             ELSE RecursiveUpdateLoop(Put(target, key, element_to_copy),
                                      to_copy, keys \ {key})

\* recursive_update(target, to_copy): the content of target afterwards
RecursiveUpdate(target, to_copy) ==
    RecursiveUpdateLoop(target, to_copy, DOMAIN to_copy)

\* a mutant: the loop over the files ends with the first one
FoldConfigsBreak(values, configs) ==
    IF configs = <<>> THEN values ELSE RecursiveUpdate(values, Head(configs))

RECURSIVE FoldConfigsFrom(_, _)
FoldConfigsFrom(values, configs) ==
    IF configs = <<>> THEN values
    ELSE FoldConfigsFrom(RecursiveUpdate(values, Head(configs)), Tail(configs))

\* the accumulation of build_config_from_files: each mapping in turn is
\* merged into values, none is skipped and the loop never ends early
FoldConfigs(values, configs) == FoldConfigsFrom(values, configs)

----------------------------------------------------------------------------
(* Outcomes: a call returns a mapping or raises *)

NoError == [type |-> "", msg |-> "", args |-> <<>>]

\* str(v) inside an f-string, a dict shown without its content
Show(v) == IF IsDict(v) THEN "{...}" ELSE IF v.t = "NoneType" THEN "None" ELSE v.s

\* an exception: its class, the text of its message and, as strings, the
\* values the message was formatted with
Error(type, msg, args) == [type |-> type, msg |-> msg, args |-> args]

Return(value) == [ok |-> TRUE, value |-> value, err |-> NoError]

Raise(err) == [ok |-> FALSE, value |-> NoMap, err |-> err]

----------------------------------------------------------------------------
(* DEFAULTS and the environment *)

ENV_PREFIX == <<"V","A","U","L","T","_","C","L","I">>

\* the name of the variable of a setting
EnvPrefixed(suffix) == ENV_PREFIX \o <<"_">> \o suffix

\* DEFAULTS._as_dict(): the class attributes whose name does not start with "_"
DefaultsAsDict ==
    [base_path |-> PyNone, login_cert |-> PyNone, login_cert_key |-> PyNone,
     password |-> PyNone, token |-> PyNone, url |-> PyStr("http://localhost:8200"),
     username |-> PyNone, verify |-> PyBool(TRUE), ca_bundle |-> PyNone,
     safe_write |-> PyBool(FALSE), follow |-> PyBool(TRUE),
     select_config |-> PyNone, configs |-> PyNone]

\* load_bool(value); the message is the literal text, "{}" included: the
\* code formats it with nothing
LoadBool(value) ==
    LET lower_value == Pack(Lower(value))
    IN  IF lower_value \in {"true", "t", "1", "yes", "y"} THEN Return(PyBool(TRUE))
        ELSE IF lower_value \in {"false", "f", "0", "no", "n"} THEN Return(PyBool(FALSE))
        ELSE Raise(Error("VaultSettingsError",
                         "Value {} could not be interpreted as boolean", <<>>))

\* the loop of build_config_from_env over the variables still to visit, in
\* the order of environ.items(); result is the mapping built so far
RECURSIVE BuildConfigFromEnvLoop(_, _)
BuildConfigFromEnvLoop(items, result) ==
    IF items = <<>> THEN Return(result)
    ELSE LET name == Head(items)[1]
             str_value == Head(items)[2]
             skip_len == Len(ENV_PREFIX) + 1
             key == Pack(Lower(SubSeq(name, skip_len + 1, Len(name))))
         IN  IF ~StartsWith(name, ENV_PREFIX \o <<"_">>)
             THEN BuildConfigFromEnvLoop(Tail(items), result)
             ELSE IF key \notin DOMAIN DefaultsAsDict
             THEN BuildConfigFromEnvLoop(Tail(items), result)
             ELSE IF IsBool(DefaultsAsDict[key])
             THEN LET value == LoadBool(str_value)
                  IN  IF value.ok
                      THEN BuildConfigFromEnvLoop(Tail(items), Put(result, key, value.value))
                      ELSE Raise(value.err)
             ELSE BuildConfigFromEnvLoop(Tail(items),
                                         Put(result, key, PyStr(Pack(str_value))))

\* build_config_from_env(environ); environ is the sequence of its items,
\* <<name, value>>, no name twice
BuildConfigFromEnv(environ) == BuildConfigFromEnvLoop(environ, NoMap)

----------------------------------------------------------------------------
(* select_config *)

RECURSIVE KeysInOrder(_)
\* the keys of a dict as a sequence, for ", ".join(configs)
KeysInOrder(keys) ==
    IF keys = {} THEN <<>>
    ELSE LET k == CHOOSE x \in keys : TRUE IN <<k>> \o KeysInOrder(keys \ {k})

\* The nested dicts of the caller's mapping that recursive_update changed in
\* place: values.copy() is shallow, so the copy and the caller's mapping hold
\* the same dict under a key, and merging into one changes the other.
SharedAfterMerge(values, config, merged) ==
    [k \in DOMAIN values |->
        IF k \in DOMAIN config /\ k \in DOMAIN merged
           /\ k \notin {"select_config", "configs"}
           /\ IsDict(values[k]) /\ IsDict(config[k])
        THEN merged[k] ELSE values[k]]

\* a mutant: select_config and configs are popped from the caller's mapping
SelectConfigNoCopy(values) ==
    LET config_name == Get(values, "select_config")
        configs == Get(values, "configs")
        popped == Pop(Pop(values, "select_config"), "configs")
    IN  IF ~Truthy(config_name) THEN [out |-> Return(popped), arg |-> popped]
        ELSE IF ~IsStr(config_name)
        THEN [out |-> Raise(Error("VaultSettingsError", "select_config is not a string",
                                  <<Show(config_name)>>)), arg |-> popped]
        ELSE IF ~IsDict(configs)
        THEN [out |-> Raise(Error("VaultSettingsError", "configs is not a dict",
                                  <<Show(configs)>>)), arg |-> popped]
        ELSE IF config_name.s \notin DOMAIN configs.m
        THEN [out |-> Raise(Error("VaultSettingsError", "Cannot find configuration",
                                  <<config_name.s>> \o KeysInOrder(DOMAIN configs.m))),
              arg |-> popped]
        ELSE LET config == configs.m[config_name.s]
             IN  IF ~IsDict(config)
                 THEN [out |-> Raise(Error("VaultSettingsError",
                                           "config is not a dict",
                                           <<config_name.s, Show(configs)>>)), arg |-> popped]
                 ELSE LET merged == RecursiveUpdate(popped, config.m)
                      IN  [out |-> Return(merged),
                           arg |-> SharedAfterMerge(popped, config.m, merged)]

\* select_config(values): out is what the call returns or raises, arg the
\* content of the caller's mapping afterwards
SelectConfig(values) ==
    LET config_name == Get(values, "select_config")
        configs == Get(values, "configs")
        copy == Pop(Pop(values, "select_config"), "configs")
    IN  IF ~Truthy(config_name) THEN [out |-> Return(copy), arg |-> values]
        ELSE IF ~IsStr(config_name)
        THEN [out |-> Raise(Error("VaultSettingsError", "select_config is not a string",
                                  <<Show(config_name)>>)), arg |-> values]
        ELSE IF ~IsDict(configs)
        THEN [out |-> Raise(Error("VaultSettingsError", "configs is not a dict",
                                  <<Show(configs)>>)), arg |-> values]
        ELSE IF config_name.s \notin DOMAIN configs.m
        THEN [out |-> Raise(Error("VaultSettingsError", "Cannot find configuration",
                                  <<config_name.s>> \o KeysInOrder(DOMAIN configs.m))),
              arg |-> values]
        ELSE LET config == configs.m[config_name.s]
             IN  IF ~IsDict(config)
                 THEN [out |-> Raise(Error("VaultSettingsError",
                                           "config is not a dict",
                                           <<config_name.s, Show(configs)>>)), arg |-> values]
                 ELSE LET merged == RecursiveUpdate(copy, config.m)
                      IN  [out |-> Return(merged),
                           arg |-> SharedAfterMerge(values, config.m, merged)]

----------------------------------------------------------------------------
(* The file system.  fs.dir is what os.walk(CONFIG_DIR) finds: records of a
   directory and a file name in it; fs.conf gives, for the path of each
   config file that exists, whether it can be read and what yaml.safe_load
   makes of it; fs.text gives the content of every other file that exists. *)

CONFIG_DIR == <<"/","e","t","c","/","v","a","u","l","t",".","d">>

\* Ordered by increasing priority
STATIC_CONFIG_FILES == <<"/etc/vault.yml", "~/.vault.yml", "./.vault.yml">>

\* the characters of the file names, in the order of their code points
CodePoints == <<".", "/", "0", "1", "2", "3", "4", "5", "6", "7", "8", "9",
                "a", "b", "c", "d", "e", "f", "g", "h", "i", "j", "k", "l", "m",
                "n", "o", "p", "q", "r", "s", "t", "u", "v", "w", "x", "y", "z">>

Ord(c) == CHOOSE i \in DOMAIN CodePoints : CodePoints[i] = c

\* a <= b for strings, as sorted() compares them
RECURSIVE StrLeq(_, _)
StrLeq(a, b) ==
    IF a = <<>> THEN TRUE
    ELSE IF b = <<>> THEN FALSE
    ELSE IF Head(a) = Head(b) THEN StrLeq(Tail(a), Tail(b))
    ELSE Ord(Head(a)) < Ord(Head(b))

RECURSIVE Sorted(_)
Sorted(strings) ==
    IF strings = {} THEN <<>>
    ELSE LET least == CHOOSE x \in strings : \A y \in strings : StrLeq(x, y)
         IN  <<least>> \o Sorted(strings \ {least})

\* str.endswith(suffix)
EndsWith(cs, suffix) ==
    Len(cs) >= Len(suffix) /\ SubSeq(cs, Len(cs) - Len(suffix) + 1, Len(cs)) = suffix

\* os.path.join(a, b): an absolute b discards a
PathJoin(a, b) ==
    IF b # <<>> /\ Head(b) = "/" THEN b
    ELSE IF a = <<>> \/ a[Len(a)] = "/" THEN a \o b
    ELSE a \o <<"/">> \o b

\* os.path.expanduser(path), for the paths of this model
ExpandUser(path) ==
    CASE path = "~/.vault.yml" -> "/home/user/.vault.yml"
      [] path = "~/secret" -> "/home/user/secret"
      [] OTHER -> path

\* compute_config_file_list()
ComputeConfigFileList(fsv) ==
    LET yaml_paths ==
            {PathJoin(PathJoin(CONFIG_DIR, e.dir_path), e.file_name) :
                e \in {x \in fsv.dir : \/ EndsWith(x.file_name, <<".","y","m","l">>)
                                       \/ EndsWith(x.file_name, <<".","y","a","m","l">>)}}
        yaml_files == Sorted(yaml_paths)
    IN  [i \in DOMAIN yaml_files |-> Pack(yaml_files[i])] \o STATIC_CONFIG_FILES

\* what yaml.safe_load returns: None for an empty document, or a mapping as
\* the sequence of its items <<key, value>>, no key twice
YamlNone == [t |-> "NoneType", items |-> <<>>]

YamlDict(items) == [t |-> "dict", items |-> items]

\* read_config_file(file_path): found is FALSE for the None returned when
\* the file is missing (FileNotFoundError) or cannot be read (IOError)
ReadConfigFile(fsv, file_path) ==
    LET path == ExpandUser(file_path)
    IN  IF path \notin DOMAIN fsv.conf THEN [found |-> FALSE, items |-> <<>>]
        ELSE IF fsv.conf[path].st # "ok" THEN [found |-> FALSE, items |-> <<>>]
        ELSE IF fsv.conf[path].doc.t = "NoneType" \/ fsv.conf[path].doc.items = <<>>
        THEN [found |-> TRUE, items |-> <<>>]
        ELSE [found |-> TRUE, items |-> fsv.conf[path].doc.items]

\* dash_to_underscores(config): the dict comprehension visits the items in
\* order, a later item rebinds the key of an earlier one
RECURSIVE DashToUnderscoresFrom(_, _)
DashToUnderscoresFrom(items, result) ==
    IF items = <<>> THEN result
    ELSE DashToUnderscoresFrom(
             Tail(items),
             Put(result, Pack(Replace(Head(items)[1], "-", "_")), Head(items)[2]))

DashToUnderscores(items) == DashToUnderscoresFrom(items, NoMap)

\* the mappings of the files of the list that could be read, in list order
RECURSIVE FileConfigs(_, _)
FileConfigs(fsv, config_files) ==
    IF config_files = <<>> THEN <<>>
    ELSE LET file_config == ReadConfigFile(fsv, Head(config_files))
         IN  (IF file_config.found THEN <<DashToUnderscores(file_config.items)>> ELSE <<>>)
             \o FileConfigs(fsv, Tail(config_files))

\* build_config_from_files(*config_files), the function under its cache
BuildConfigFromFiles(fsv, config_files) ==
    FoldConfigs(DefaultsAsDict, FileConfigs(fsv, config_files))

----------------------------------------------------------------------------
(* functools.lru_cache() around build_config_from_files: a sequence of
   entries [key, value], the most recently used first; the key is the tuple
   of the arguments *)

\* lru_cache() without arguments: maxsize is 128
LruMaxSize == 128

LruIndex(c, key) ==
    IF \E i \in DOMAIN c : c[i].key = key
    THEN CHOOSE i \in DOMAIN c : c[i].key = key
    ELSE 0

\* a hit: the entry becomes the most recently used
LruTouch(c, key) ==
    LET i == LruIndex(c, key)
    IN  <<c[i]>> \o SubSeq(c, 1, i - 1) \o SubSeq(c, i + 1, Len(c))

\* a mutant: nothing is stored
LruStoreNothing(c, key, value) == c

\* a miss: the result is stored, and the least recently used entry is
\* dropped when the cache is full
LruStore(c, key, value) ==
    <<[key |-> key, value |-> value]>>
        \o (IF Len(c) >= LruMaxSize THEN SubSeq(c, 1, LruMaxSize - 1) ELSE c)

\* the cached build_config_from_files(*config_files): the dict returned (the
\* one the cache holds), the cache afterwards and the files opened
CachedBuildConfigFromFiles(c, fsv, config_files) ==
    IF LruIndex(c, config_files) # 0
    THEN [value |-> c[LruIndex(c, config_files)].value,
          cache |-> LruTouch(c, config_files),
          reads |-> <<>>]
    ELSE LET values == BuildConfigFromFiles(fsv, config_files)
         IN  [value |-> values,
              cache |-> LruStore(c, config_files, values),
              reads |-> config_files]

\* the dict the cache holds for the key gets this content (it was changed in
\* place through a reference to it or to a dict inside it)
LruMutate(c, key, value) ==
    [i \in DOMAIN c |-> IF c[i].key = key THEN [key |-> key, value |-> value] ELSE c[i]]

----------------------------------------------------------------------------
(* read_file, replace_path_with_content, read_all_files *)

\* read_file(path): standard input is read to its end
ReadFile(path, fsv, stdinv) ==
    IF path = "-"
    THEN [out |-> Return(PyStr(Pack(Strip(stdinv)))), stdin |-> <<>>]
    ELSE IF ExpandUser(path) \in DOMAIN fsv.text
    THEN [out |-> Return(PyStr(Pack(Strip(fsv.text[ExpandUser(path)])))), stdin |-> stdinv]
    ELSE [out |-> Raise(Error("FileNotFoundError", "No such file or directory", <<path>>)),
          stdin |-> stdinv]

\* replace_path_with_content(config, setting_name): out holds the content of
\* config afterwards
ReplacePathWithContent(config, setting_name, fsv, stdinv) ==
    LET filename == Get(config, setting_name \o "_file")
        popped == Pop(config, setting_name \o "_file")
    IN  IF ~Truthy(filename) THEN [out |-> Return(popped), stdin |-> stdinv]
        ELSE IF ~IsStr(filename)
        THEN [out |-> Raise(Error("AssertionError", "", <<>>)), stdin |-> stdinv]
        ELSE LET content == ReadFile(filename.s, fsv, stdinv)
             IN  IF content.out.ok
                 THEN [out |-> Return(Put(popped, setting_name, content.out.value)),
                       stdin |-> content.stdin]
                 ELSE [out |-> Raise(content.out.err), stdin |-> content.stdin]

\* a mutant: token is resolved before password
ReadAllFilesTokenFirst(config, fsv, stdinv) ==
    LET token == ReplacePathWithContent(config, "token", fsv, stdinv)
    IN  IF ~token.out.ok THEN token
        ELSE ReplacePathWithContent(token.out.value, "password", fsv, token.stdin)

\* read_all_files(config)
ReadAllFiles(config, fsv, stdinv) ==
    LET password == ReplacePathWithContent(config, "password", fsv, stdinv)
    IN  IF ~password.out.ok THEN password
        ELSE ReplacePathWithContent(password.out.value, "token", fsv, password.stdin)

----------------------------------------------------------------------------
(* get_vault_options *)

\* a mutant: the environment is applied after the explicit overrides
OverlayEnvLast(values, env, kwargs) == DictUpdate(DictUpdate(values, kwargs), env)

\* a mutant: the overlays are deep merges
OverlayDeep(values, env, kwargs) == RecursiveUpdate(RecursiveUpdate(values, env), kwargs)

\* values.update(build_config_from_env(...)); values.update(kwargs)
Overlay(values, env, kwargs) == DictUpdate(DictUpdate(values, env), kwargs)

\* The content, after select_config, of the dict the cache holds: the
\* shallow copies share its nested dicts, except under the keys that the
\* environment or the overrides rebound, and select_config merges the
\* profile into those nested dicts in place.
CachedAfterSelect(cached, env, kwargs, after) ==
    [k \in DOMAIN cached |->
        IF k \in DOMAIN env \cup DOMAIN kwargs THEN cached[k] ELSE after[k]]

\* get_vault_options(**kwargs) with this environment: out is what the call
\* returns or raises; folded, merged and selected are the settings after the
\* files, after the overlays and after select_config, as far as it got;
\* reached is the last step it entered
GetVaultOptions(fsv, c, stdinv, environ, kwargs) ==
    LET config_files == ComputeConfigFileList(fsv)
        built == CachedBuildConfigFromFiles(c, fsv, config_files)
        env == BuildConfigFromEnv(environ)
        call == [config_files |-> config_files, reads |-> built.reads,
                 folded |-> built.value, merged |-> NoMap, selected |-> NoMap,
                 cache |-> built.cache, stdin |-> stdinv,
                 reached |-> "build_config_from_env", out |-> Raise(NoError)]
    IN  IF ~env.ok THEN [call EXCEPT !.out = Raise(env.err)]
        ELSE LET values == Overlay(built.value, env.value, kwargs)
                 sel == SelectConfig(values)
                 cache1 == LruMutate(built.cache, config_files,
                               CachedAfterSelect(built.value, env.value, kwargs, sel.arg))
             IN  IF ~sel.out.ok
                 THEN [call EXCEPT !.merged = values, !.reached = "select_config",
                                   !.out = Raise(sel.out.err)]
                 ELSE LET read == ReadAllFiles(sel.out.value, fsv, stdinv)
                      IN  [call EXCEPT !.merged = values, !.selected = sel.out.value,
                                       !.cache = cache1, !.stdin = read.stdin,
                                       !.reached = "read_all_files", !.out = read.out]

----------------------------------------------------------------------------
(* The process: get_vault_options called again and again *)

\* ncalls counts the calls up to MaxCalls
MaxCalls == 2

NoCall ==
    [environ |-> <<>>, kwargs |-> NoMap, stdin |-> <<>>, config_files |-> <<>>,
     reads |-> <<>>, folded |-> NoMap, merged |-> NoMap, selected |-> NoMap,
     reached |-> "", out |-> Raise(NoError)]

\* the history of the candidate lists, without repetition
Remember(history, key) ==
    <<key>> \o SelectSeq(history, LAMBDA k : k # key)

\* one call of get_vault_options(**kwargs) with this environment
Resolve(environ, kwargs) ==
    \E call \in {GetVaultOptions(fs, cache, stdin, environ, kwargs)} :
        /\ cache' = call.cache
        /\ stdin' = call.stdin
        /\ last' = [environ |-> environ, kwargs |-> kwargs, stdin |-> stdin,
                    config_files |-> call.config_files, reads |-> call.reads,
                    folded |-> call.folded, merged |-> call.merged,
                    selected |-> call.selected, reached |-> call.reached,
                    out |-> call.out]
        /\ used' = Remember(used, call.config_files)
        /\ ncalls' = IF ncalls < MaxCalls THEN ncalls + 1 ELSE ncalls

\* the config files of the initial states
ProdProfileDoc ==
    PyDict(("url" :> PyStr("http://prod")) @@ ("opts" :> PyDict("b" :> PyStr("2")))
           @@ ("password" :> PyStr("prod-pw")))

LeakProfileDoc ==
    PyDict(("select_config" :> PyStr("prod")) @@ ("token_file" :> PyStr("-")))

BaseDoc ==
    YamlDict(<<<<<<"u", "r", "l">>, PyStr("http://base")>>,
              <<<<"o", "p", "t", "s">>, PyDict("a" :> PyStr("1"))>>,
              <<<<"p", "a", "s", "s", "w", "o", "r", "d">>, PyStr("base-pw")>>,
              <<<<"c", "o", "n", "f", "i", "g", "s">>, PyDict(("prod" :> ProdProfileDoc) @@ ("leak" :> LeakProfileDoc)
                  @@ ("bad" :> PyStr("oops")))>>>>)

SubDoc ==
    YamlDict(<<<<<<"b", "a", "s", "e", "-", "p", "a", "t", "h">>, PyStr("/sub")>>,
              <<<<"u", "r", "l">>, PyStr("http://sub")>>,
              <<<<"o", "p", "t", "s">>, PyDict("s" :> PyStr("0"))>>>>)

EtcDocs ==
    {YamlDict(<<<<<<"u", "r", "l">>, PyStr("http://etc")>>,
              <<<<"s", "e", "l", "e", "c", "t", "_", "c", "o", "n", "f", "i", "g">>, PyStr("prod")>>>>),
     YamlDict(<<<<<<"p", "a", "s", "s", "w", "o", "r", "d", "_", "f", "i", "l", "e">>, PyStr("/run/secret")>>,
              <<<<"t", "o", "k", "e", "n">>, PyStr("etc-token")>>>>)}

HomeDocs ==
    {YamlDict(<<<<<<"t", "o", "k", "e", "n", "-", "f", "i", "l", "e">>, PyStr("-")>>,
              <<<<"p", "a", "s", "s", "w", "o", "r", "d", "-", "f", "i", "l", "e">>, PyStr("-")>>>>)}

LocalDocs ==
    {YamlDict(<<<<<<"s", "e", "l", "e", "c", "t", "_", "c", "o", "n", "f", "i", "g">>, PyStr("leak")>>,
              <<<<"b", "a", "s", "e", "_", "p", "a", "t", "h">>, PyStr("/local")>>>>),
     YamlDict(<<<<<<"p", "a", "s", "s", "w", "o", "r", "d", "_", "f", "i", "l", "e">>, PyStr("/run/missing")>>,
              <<<<"s", "e", "l", "e", "c", "t", "_", "c", "o", "n", "f", "i", "g">>, PyStr("")>>>>),
     YamlNone}

ConfigDirs ==
    {{},
     {[dir_path |-> CONFIG_DIR, file_name |-> <<"b", ".", "y", "m", "l">>],
      [dir_path |-> CONFIG_DIR \o <<"/", "s", "u", "b">>, file_name |-> <<"a", ".", "y", "a", "m", "l">>],
      [dir_path |-> CONFIG_DIR, file_name |-> <<"n", "o", "t", "e", "s", ".", "t", "x", "t">>]}}

DirConf(dir) ==
    IF dir = {} THEN NoMap
    ELSE ("/etc/vault.d/b.yml" :> [st |-> "ok", doc |-> BaseDoc])
         @@ ("/etc/vault.d/sub/a.yaml" :> [st |-> "ok", doc |-> SubDoc])
         @@ ("/etc/vault.d/notes.txt" :> [st |-> "ok", doc |-> YamlNone])

\* the path is missing, or there but not readable, or holds one of the documents
FileStates(path, docs, denied) ==
    {NoMap} \cup {path :> [st |-> "ok", doc |-> d] : d \in docs}
            \cup {path :> [st |-> "denied", doc |-> YamlNone] : x \in denied}

SecretFiles ==
    ("/run/secret" :> <<" ", "f", "i", "l", "e", "d", "\n">>) @@ ("/home/user/secret" :> <<"h", "o", "m", "e">>)

FileSystems ==
    {[dir |-> dir,
      conf |-> DirConf(dir) @@ etc @@ home @@ local,
      text |-> SecretFiles] :
        dir \in ConfigDirs,
        etc \in FileStates("/etc/vault.yml", EtcDocs, {"denied"}),
        home \in FileStates("/home/user/.vault.yml", HomeDocs, {}),
        local \in FileStates("./.vault.yml", LocalDocs, {})}

StdinContent == <<"t", "y", "p", "e", "d", " ", "\n">>

\* the environments and the overrides of the calls
Environments ==
    {<<>>,
     <<<<EnvPrefixed(<<"U", "R", "L">>), <<"h", "t", "t", "p", ":", "/", "/", "e", "n", "v">>>>, <<EnvPrefixed(<<"V", "E", "R", "I", "F", "Y">>), <<"n", "o">>>>>>,
     <<<<EnvPrefixed(<<"S", "E", "L", "E", "C", "T", "_", "C", "O", "N", "F", "I", "G">>), <<"p", "r", "o", "d">>>>>>,
     <<<<EnvPrefixed(<<"F", "O", "L", "L", "O", "W">>), <<"m", "a", "y", "b", "e">>>>>>}

Overrides ==
    {NoMap,
     ("url" :> PyStr("http://kw")) @@ ("opts" :> PyDict("k" :> PyStr("9"))),
     "select_config" :> PyStr("leak"),
     ("password" :> PyStr("kw-pw")) @@ ("token_file" :> PyStr("~/secret")),
     "select_config" :> PyNone,
     "token_file" :> PyInt("7")}

Init ==
    /\ fs \in FileSystems
    /\ cache = <<>>
    /\ stdin = StdinContent
    /\ last = NoCall
    /\ ncalls = 0
    /\ used = <<>>
    /\ pc = "process" /\ arg = NoMap /\ ret = NoMap

GetVaultOptionsCall ==
    /\ ncalls < MaxCalls
    /\ \E environ \in Environments, kwargs \in Overrides : Resolve(environ, kwargs)
    /\ UNCHANGED <<fs, callVars>>

Next == GetVaultOptionsCall

Spec == Init /\ [][Next]_vars

----------------------------------------------------------------------------
(* Single function calls: the arguments are drawn in the initial state, one
   action applies the function *)

NoProcess ==
    /\ fs = NoMap
    /\ cache = <<>>
    /\ stdin = <<>>
    /\ last = NoMap
    /\ ncalls = 0
    /\ used = <<>>

\* the mappings with no key, or with the key bound to one of the values
OptKey(key, values) == {NoMap} \cup {key :> v : v \in values}

LeafDicts ==
    {PyDict(NoMap), PyDict("x" :> PyStr("1")), PyDict("x" :> PyStr("2")),
     PyDict("y" :> PyStr("1")), PyDict(("x" :> PyStr("1")) @@ ("y" :> PyStr("1")))}

DeepDicts ==
    {PyDict("x" :> PyDict("z" :> PyStr("1"))),
     PyDict(("x" :> PyDict("w" :> PyStr("2"))) @@ ("y" :> PyStr("2")))}

MergeMaps ==
    {a @@ b : a \in OptKey("a", {PyStr("1"), PyList("[1]")} \cup LeafDicts \cup DeepDicts),
              b \in OptKey("b", {PyStr("1")})}

InitMerge ==
    /\ NoProcess
    /\ pc = "input"
    /\ arg \in [target : MergeMaps, to_copy : MergeMaps, third : MergeMaps]
    /\ ret = NoMap

\* recursive_update(target, to_copy)
CallRecursiveUpdate ==
    /\ pc = "input"
    /\ pc' = "recursive_update"
    /\ ret' = [target |-> RecursiveUpdate(arg.target, arg.to_copy)]
    /\ UNCHANGED <<arg, procVars>>

\* three file mappings merged in order, and the first merged with the merge
\* of the other two
CallFold ==
    /\ pc = "input"
    /\ pc' = "fold"
    /\ ret' = [folded |-> FoldConfigs(arg.target, <<arg.to_copy, arg.third>>),
               grouped |-> RecursiveUpdate(arg.target,
                                           RecursiveUpdate(arg.to_copy, arg.third))]
    /\ UNCHANGED <<arg, procVars>>

NextMerge == CallRecursiveUpdate \/ CallFold

SpecMerge == InitMerge /\ [][NextMerge]_vars

----------------------------------------------------------------------------
(* Claims about recursive_update *)

\* out is the deep merge of overrides into target, stated key by key
RECURSIVE IsDeepMerge(_, _, _)
IsDeepMerge(out, target, overrides) ==
    /\ DOMAIN out = DOMAIN target \cup DOMAIN overrides
    /\ \A k \in DOMAIN target \ DOMAIN overrides : out[k] = target[k]
    /\ \A k \in DOMAIN overrides :
          IF k \in DOMAIN target /\ IsDict(target[k]) /\ IsDict(overrides[k])
          THEN /\ IsDict(out[k])
               /\ IsDeepMerge(out[k].m, target[k].m, overrides[k].m)
          ELSE out[k] = overrides[k]

\* C7: after recursive_update(target, overrides), every key of overrides
\* holds the recursive merge when both sides are mappings and the overrides'
\* value otherwise (a list or a scalar replaces, a mapping replaces a
\* scalar); every other key of target keeps its value at every nesting
\* level, and the keys are the union of both key sets.
C7_RecursiveUpdateIsDeepMerge ==
    pc = "recursive_update" => IsDeepMerge(ret.target, arg.target, arg.to_copy)

\* C7's case: both sides hold a mapping under "a", each with a key of its
\* own at the second level, target has a key overrides lacks, and the merge
\* kept and added them
C7_Witness ==
    /\ pc = "recursive_update"
    /\ "a" \in DOMAIN arg.target /\ "a" \in DOMAIN arg.to_copy
    /\ IsDict(arg.target["a"]) /\ IsDict(arg.to_copy["a"])
    /\ "x" \in DOMAIN arg.target["a"].m /\ "x" \in DOMAIN arg.to_copy["a"].m
    /\ IsDict(arg.target["a"].m["x"]) /\ IsDict(arg.to_copy["a"].m["x"])
    /\ arg.target["a"].m["x"] # arg.to_copy["a"].m["x"]
    /\ "b" \in DOMAIN arg.target /\ "b" \notin DOMAIN arg.to_copy
    /\ DOMAIN ret.target["a"].m["x"].m = {"z", "w"}
    /\ ret.target["b"] = arg.target["b"]

\* some key path holds a scalar in all three mappings, not the same in all
RECURSIVE ConflictingScalars(_, _, _)
ConflictingScalars(A, B, C) ==
    \E k \in DOMAIN A \cap DOMAIN B \cap DOMAIN C :
        \/ /\ ~IsDict(A[k]) /\ ~IsDict(B[k]) /\ ~IsDict(C[k])
           /\ ~(A[k] = B[k] /\ B[k] = C[k])
        \/ /\ IsDict(A[k]) /\ IsDict(B[k]) /\ IsDict(C[k])
           /\ ConflictingScalars(A[k].m, B[k].m, C[k].m)

\* some key path holds a mapping in A and in C and a value that is no
\* mapping in B
RECURSIVE MappingHiddenByMiddle(_, _, _)
MappingHiddenByMiddle(A, B, C) ==
    \E k \in DOMAIN A \cap DOMAIN B \cap DOMAIN C :
        /\ IsDict(A[k]) /\ IsDict(C[k])
        /\ \/ ~IsDict(B[k])
           \/ MappingHiddenByMiddle(A[k].m, B[k].m, C[k].m)

\* C8 as stated: unless three files write conflicting scalars to one key
\* path, folding A, B, C in order equals merging into A the merge of C into B.
C8_FoldIsAssociative ==
    (pc = "fold" /\ ~ConflictingScalars(arg.target, arg.to_copy, arg.third))
        => ret.folded = ret.grouped

\* C8 amended: the same, provided also that no key path holds a mapping in A
\* and in C but a value that is no mapping in B.
C8_FoldIsAssociativeUnlessHidden ==
    (/\ pc = "fold"
     /\ ~ConflictingScalars(arg.target, arg.to_copy, arg.third)
     /\ ~MappingHiddenByMiddle(arg.target, arg.to_copy, arg.third))
        => ret.folded = ret.grouped

\* C8's case: the three mappings hold different mappings under "a", so both
\* sides of the equation merge three levels, and each file adds to the result
C8_Witness ==
    /\ pc = "fold"
    /\ ~ConflictingScalars(arg.target, arg.to_copy, arg.third)
    /\ ~MappingHiddenByMiddle(arg.target, arg.to_copy, arg.third)
    /\ "a" \in DOMAIN arg.target /\ "a" \in DOMAIN arg.to_copy /\ "a" \in DOMAIN arg.third
    /\ arg.target["a"] = PyDict("x" :> PyDict("z" :> PyStr("1")))
    /\ arg.to_copy["a"] = PyDict(("x" :> PyDict("w" :> PyStr("2"))) @@ ("y" :> PyStr("2")))
    /\ arg.third["a"] = PyDict("y" :> PyStr("1"))
    /\ ret.folded = ret.grouped
    /\ ret.folded["a"] =
          PyDict(("x" :> PyDict(("z" :> PyStr("1")) @@ ("w" :> PyStr("2"))))
                 @@ ("y" :> PyStr("1")))

----------------------------------------------------------------------------
(* build_config_from_env, called once *)

MaxEnvVars == 2

EnvNames ==
    {EnvPrefixed(<<"U","R","L">>),
     EnvPrefixed(<<"V","E","R","I","F","Y">>),
     EnvPrefixed(<<"V","e","r","i","f","y">>),
     EnvPrefixed(<<"f","o","l","l","o","w">>),
     EnvPrefixed(<<"N","O","P","E">>),
     ENV_PREFIX \o <<"U","R","L">>,
     <<"v","a","u","l","t","_","c","l","i","_","u","r","l">>,
     <<"P","A","T","H">>}

EnvValues ==
    {<<"Y","E","S">>, <<"0">>, <<"m","a","y","b","e">>, <<"F","a","l","s","e">>, <<"t">>}

\* the environments of n variables, each a sequence of <<name, value>> with
\* no name twice
RECURSIVE Environs(_)
Environs(n) ==
    IF n = 0 THEN {<<>>}
    ELSE {Append(e, <<name, value>>) :
            e \in Environs(n - 1),
            name \in EnvNames,
            value \in EnvValues} 

HasDistinctNames(e) == \A i, j \in DOMAIN e : e[i][1] = e[j][1] => i = j

InitEnv ==
    /\ NoProcess
    /\ pc = "input"
    /\ arg \in {[environ |-> e] :
                  e \in {x \in UNION {Environs(n) : n \in 0..MaxEnvVars} :
                            HasDistinctNames(x)}}
    /\ ret = NoMap

CallBuildConfigFromEnv ==
    /\ pc = "input"
    /\ pc' = "build_config_from_env"
    /\ ret' = BuildConfigFromEnv(arg.environ)
    /\ UNCHANGED <<arg, procVars>>

NextEnv == CallBuildConfigFromEnv

SpecEnv == InitEnv /\ [][NextEnv]_vars

\* variable i is named VAULT_CLI_<suffix>
EnvSuffix(e, i) == SubSeq(e[i][1], Len(ENV_PREFIX) + 2, Len(e[i][1]))

EnvKey(e, i) == Pack(Lower(EnvSuffix(e, i)))

EnvRecognized(e, i) ==
    /\ e[i][1] = EnvPrefixed(EnvSuffix(e, i))
    /\ EnvKey(e, i) \in DOMAIN DefaultsAsDict

BooleanSettings == {"verify", "safe_write", "follow"}

TrueWords == {"true", "t", "1", "yes", "y"}

FalseWords == {"false", "f", "0", "no", "n"}

EnvUndecodable(e, i) ==
    /\ EnvRecognized(e, i)
    /\ EnvKey(e, i) \in BooleanSettings
    /\ Pack(Lower(e[i][2])) \notin TrueWords \cup FalseWords

\* the value the claim gives the key of variable i
EnvDecoded(e, i) ==
    IF EnvKey(e, i) \in BooleanSettings
    THEN PyBool(Pack(Lower(e[i][2])) \in TrueWords)
    ELSE PyStr(Pack(e[i][2]))

\* C6 without the content of the error: the keys are exactly the lowercased
\* suffixes of the recognized VAULT_CLI_ variables, boolean settings are
\* decoded and the others are the raw string (the last variable in the order
\* of the environment decides a key two variables give), and a boolean
\* variable with any other string makes the call raise VaultSettingsError
\* with no mapping.
C6_DecodedMapping ==
    pc = "build_config_from_env" =>
        LET e == arg.environ
        IN  IF \E i \in DOMAIN e : EnvUndecodable(e, i)
            THEN ~ret.ok /\ ret.value = NoMap /\ ret.err.type = "VaultSettingsError"
            ELSE /\ ret.ok
                 /\ DOMAIN ret.value = {EnvKey(e, i) : i \in {j \in DOMAIN e : EnvRecognized(e, j)}}
                 /\ \A i \in DOMAIN e :
                       (/\ EnvRecognized(e, i)
                        /\ \A j \in DOMAIN e :
                              (EnvRecognized(e, j) /\ EnvKey(e, j) = EnvKey(e, i)) => j <= i)
                       => ret.value[EnvKey(e, i)] = EnvDecoded(e, i)

\* C6, the content of the error: the VaultSettingsError names the value that
\* could not be decoded.
C6_ErrorNamesValue ==
    (pc = "build_config_from_env" /\ ~ret.ok) =>
        \E i \in DOMAIN arg.environ :
            /\ EnvUndecodable(arg.environ, i)
            /\ \E a \in DOMAIN ret.err.args : ret.err.args[a] = Pack(arg.environ[i][2])

\* C6: build_config_from_env returns exactly the recognized VAULT_CLI_
\* settings, booleans decoded and other values raw, and fails with a
\* VaultSettingsError naming the offending value when a boolean setting
\* holds any other string.
C6_EnvDecoding == C6_DecodedMapping /\ C6_ErrorNamesValue

----------------------------------------------------------------------------
(* select_config, called once *)

ProdProfile ==
    PyDict(("url" :> PyStr("http://prod")) @@ ("opts" :> PyDict("b" :> PyStr("2"))))

SelectInputs ==
    {s @@ c @@ o @@ ("url" :> PyStr("http://file")) :
        s \in OptKey("select_config",
                     {PyNone, PyStr(""), PyStr("prod"), PyStr("staging"),
                      PyInt("5"), PyInt("0"), PyBool(TRUE)}),
        c \in OptKey("configs",
                     {PyNone, PyStr("prod"), PyList("[prod]"), PyDict(NoMap),
                      PyDict("prod" :> ProdProfile),
                      PyDict(("prod" :> PyStr("http://prod")) @@ ("staging" :> PyDict(NoMap))),
                      PyDict(("dev" :> PyDict(NoMap)) @@ ("qa" :> ProdProfile))}),
        o \in OptKey("opts", {PyDict("a" :> PyStr("1"))})}

InitSelect ==
    /\ NoProcess
    /\ pc = "input"
    /\ arg \in {[values |-> v] : v \in SelectInputs}
    /\ ret = NoMap

CallSelectConfig ==
    /\ pc = "input"
    /\ pc' = "select_config"
    /\ ret' = SelectConfig(arg.values)
    /\ UNCHANGED <<arg, procVars>>

NextSelect == CallSelectConfig

SpecSelect == InitSelect /\ [][NextSelect]_vars

\* why select_config has to fail on these values, "" when it has not to
SelectFailure(values) ==
    LET name == Get(values, "select_config")
        configs == Get(values, "configs")
    IN  IF ~Truthy(name) THEN ""
        ELSE IF ~IsStr(name) THEN "select_config is not a string"
        ELSE IF ~IsDict(configs) THEN "configs is not a mapping"
        ELSE IF name.s \notin DOMAIN configs.m THEN "profile not found"
        ELSE IF ~IsDict(configs.m[name.s]) THEN "profile is not a mapping"
        ELSE ""

\* C5: select_config removes select_config and configs; with select_config
\* absent or falsy it returns the other settings unchanged, whatever configs
\* is; otherwise it raises VaultSettingsError when select_config is not a
\* string, configs is not a mapping, the profile is not a key of configs
\* (the error lists the available names) or the profile is not a mapping.
\* When it raises, no mapping is returned and the caller's mapping is as it was.
C5_SelectConfigValidation ==
    pc = "select_config" =>
        LET values == arg.values
            name == Get(values, "select_config")
            rest == [k \in DOMAIN values \ {"select_config", "configs"} |-> values[k]]
        IN  /\ ~Truthy(name) => (ret.out.ok /\ ret.out.value = rest /\ ret.arg = values)
            /\ ret.out.ok <=> SelectFailure(values) = ""
            /\ ~ret.out.ok =>
                  /\ ret.out.err.type = "VaultSettingsError"
                  /\ ret.out.value = NoMap
                  /\ ret.arg = values
            /\ SelectFailure(values) = "profile not found" =>
                  \A profile \in DOMAIN values["configs"].m :
                      \E a \in DOMAIN ret.out.err.args : ret.out.err.args[a] = profile

\* C5's case: a profile that configs lacks was asked for, the call raised,
\* the error lists both profiles that exist and the caller still holds
\* select_config and configs
C5_Witness ==
    /\ pc = "select_config"
    /\ ~ret.out.ok
    /\ Get(arg.values, "select_config") = PyStr("prod")
    /\ DOMAIN Get(arg.values, "configs").m = {"dev", "qa"}
    /\ {ret.out.err.args[a] : a \in DOMAIN ret.out.err.args} = {"prod", "dev", "qa"}
    /\ {"select_config", "configs"} \subseteq DOMAIN ret.arg

----------------------------------------------------------------------------
(* Claims about get_vault_options *)

Resolved == ncalls > 0 /\ last.out.ok

ConsumedKeys == {"select_config", "configs", "password_file", "token_file"}

\* C2: the mapping a successful get_vault_options call returns holds none of
\* select_config, configs, password_file and token_file, whatever the
\* files, the environment, the overrides and the selected profile hold.
C2_ConsumedKeysAbsent ==
    Resolved => DOMAIN last.out.value \cap ConsumedKeys = {}

\* the profile the last call selected, NoMap when it selected none
SelectedProfile ==
    IF Truthy(Get(last.merged, "select_config"))
    THEN last.merged["configs"].m[last.merged["select_config"].s].m
    ELSE NoMap

\* The sources of the last call in increasing priority: the defaults, each
\* file of the candidate list (a missing or unreadable one supplies
\* nothing), the environment, the overrides, the selected profile.
Sources ==
    <<DefaultsAsDict>>
    \o [i \in DOMAIN last.config_files |->
          LET file == ReadConfigFile(fs, last.config_files[i])
          IN  IF file.found THEN DashToUnderscores(file.items) ELSE NoMap]
    \o <<BuildConfigFromEnv(last.environ).value, last.kwargs, SelectedProfile>>

Supplied(sources, k) == {i \in DOMAIN sources : k \in DOMAIN sources[i]}

ScalarSetting(sources, k) == \A i \in Supplied(sources, k) : ~IsDict(sources[i][k])

HighestPriorityValue(sources, k) ==
    LET top == CHOOSE i \in Supplied(sources, k) : \A j \in Supplied(sources, k) : j <= i
    IN  sources[top][k]

SettingNames(sources) == UNION {DOMAIN sources[i] : i \in DOMAIN sources}

\* password or token is read from a file: <name>_file is set after the
\* profile selection
FromFile(k) ==
    /\ k \in {"password", "token"}
    /\ Truthy(Get(last.selected, k \o "_file"))

SecretPath(name) == Get(last.selected, name \o "_file")

\* <name>_file names a file that does not exist
Unopenable(name) ==
    /\ Truthy(SecretPath(name)) /\ IsStr(SecretPath(name))
    /\ SecretPath(name).s # "-"
    /\ ExpandUser(SecretPath(name).s) \notin DOMAIN fs.text

SecretPathsAreStrings ==
    \A name \in {"password", "token"} : Truthy(SecretPath(name)) => IsStr(SecretPath(name))

\* what <name>_file refers to, given what standard input holds for it
Referenced(name, input) ==
    IF SecretPath(name).s = "-" THEN input ELSE fs.text[ExpandUser(SecretPath(name).s)]

\* password and token of the result, given what standard input holds for each
SecretsResolved(input) ==
    (ncalls > 0 /\ last.reached = "read_all_files" /\ SecretPathsAreStrings) =>
        /\ (\E name \in {"password", "token"} : Unopenable(name)) =>
              /\ ~last.out.ok /\ last.out.value = NoMap
              /\ last.out.err.type = "FileNotFoundError"
        /\ last.out.ok =>
              \A name \in {"password", "token"} :
                  IF Truthy(SecretPath(name))
                  THEN /\ name \in DOMAIN last.out.value
                       /\ last.out.value[name] = PyStr(Pack(Strip(Referenced(name, input[name]))))
                  ELSE /\ name \in DOMAIN last.out.value <=> name \in DOMAIN last.selected
                       /\ name \in DOMAIN last.selected =>
                             last.out.value[name] = last.selected[name]

\* C3 as stated: with a non-empty <name>_file after profile selection the
\* final password or token is the trimmed content of the file, or of
\* standard input for "-", whatever direct value any source or the profile
\* gave; without it the merged value is kept; a file that cannot be opened
\* fails the whole resolution.
C3_SecretFromFile ==
    SecretsResolved([password |-> last.stdin, token |-> last.stdin])

\* C3 amended: standard input is read to its end by the first setting that
\* names "-"; password is resolved first, so when both name "-", token is
\* the empty string.
C3_SecretFromFileStdinOnce ==
    SecretsResolved([password |-> last.stdin,
                     token |-> IF SecretPath("password") = PyStr("-") THEN <<>>
                               ELSE last.stdin])

\* C3's case: the profile gave a password, a config file names a
\* password_file and an override a token_file under the home directory; the
\* result holds the trimmed contents of both files
C3_Witness ==
    /\ Resolved
    /\ Get(SelectedProfile, "password") = PyStr("prod-pw")
    /\ Get(last.selected, "password") = PyStr("prod-pw")
    /\ SecretPath("password") = PyStr("/run/secret")
    /\ SecretPath("token") = PyStr("~/secret")
    /\ last.out.value["password"] = PyStr("filed")
    /\ last.out.value["token"] = PyStr("home")
    /\ DOMAIN last.out.value \cap {"password_file", "token_file"} = {}

\* the settings the overrides are applied onto: the folded files under the
\* environment
BeforeOverrides == DictUpdate(last.folded, BuildConfigFromEnv(last.environ).value)

\* the keys under which an override and the settings before it both hold a
\* mapping
MappingOverridden ==
    {k \in DOMAIN last.kwargs \ ConsumedKeys :
        IsDict(last.kwargs[k]) /\ IsDict(Get(BeforeOverrides, k))}

C10_SameAsInFreshProcess ==
    ncalls > 0 =>
        last.out = GetVaultOptions(fs, <<>>, last.stdin, last.environ, last.kwargs).out

----------------------------------------------------------------------------
(* The cache over a long run: the config directory holds one file, renamed
   again and again, so that call after call sees a candidate list it has not
   seen, and the file in the home directory is rewritten once *)

\* the number of distinct candidate lists of a run
MaxLists == 129

Digits == <<"0", "1", "2", "3", "4", "5", "6", "7", "8", "9">>

\* f001.yml, f002.yml, ...
NumberedFile(n) ==
    <<"f", Digits[((n \div 100) % 10) + 1], Digits[((n \div 10) % 10) + 1], Digits[(n % 10) + 1]>>
        \o <<".", "y", "m", "l">>

HomeDoc(version) ==
    YamlDict(<<<<<<"u", "r", "l">>, PyStr(version)>>>>)

DirDoc ==
    YamlDict(<<<<<<"b", "a", "s", "e", "-", "p", "a", "t", "h">>, PyStr("/d")>>>>)

HomeConf(version) ==
    "/home/user/.vault.yml" :> [st |-> "ok", doc |-> HomeDoc(version)]

InitCache ==
    /\ fs = [dir |-> {}, conf |-> HomeConf("http://v0"), text |-> NoMap]
    /\ cache = <<>>
    /\ stdin = <<>>
    /\ last = NoCall
    /\ ncalls = 0
    /\ used = <<>>
    /\ pc = "process" /\ arg = NoMap /\ ret = NoMap

\* get_vault_options() with an empty environment
CacheCall ==
    /\ Resolve(<<>>, NoMap)
    /\ UNCHANGED <<fs, callVars>>

\* the home file is rewritten
WriteHomeFile ==
    /\ fs.conf["/home/user/.vault.yml"].doc = HomeDoc("http://v0")
    /\ fs' = [fs EXCEPT !.conf = HomeConf("http://v1") @@ fs.conf]
    /\ UNCHANGED <<cache, stdin, last, ncalls, used, callVars>>

\* the listing of the config directory
DirWith(files) ==
    [dir |-> {[dir_path |-> CONFIG_DIR, file_name |-> f] : f \in files},
     conf |-> [p \in {Pack(PathJoin(CONFIG_DIR, f)) : f \in files} |-> [st |-> "ok", doc |-> DirDoc]]]

\* once its listing has been resolved, the config directory gets a file
\* under a name not used before in place of the one it has, or loses its
\* file and stays empty from then on
ChangeConfigDir ==
    /\ \E i \in DOMAIN used : used[i] = ComputeConfigFileList(fs)
    /\ \E files \in {{}} \cup {{NumberedFile(n)} : n \in {Len(used)} \cap (1..MaxLists - 1)} :
          /\ fs.dir # DirWith(files).dir
          /\ fs.dir = {} => Len(used) = 1
          /\ fs' = [fs EXCEPT !.dir = DirWith(files).dir,
                              !.conf = DirWith(files).conf
                                         @@ [p \in {"/home/user/.vault.yml"} |-> fs.conf[p]]]
    /\ UNCHANGED <<cache, stdin, last, ncalls, used, callVars>>

NextCache == CacheCall \/ WriteHomeFile \/ ChangeConfigDir

SpecCache == InitCache /\ [][NextCache]_vars

\* how many distinct candidate lists back this one was resolved last: 1 for
\* the list of the latest call, 0 for a list never resolved
Recency(config_files) ==
    IF \E i \in DOMAIN used : used[i] = config_files
    THEN CHOOSE i \in DOMAIN used : used[i] = config_files
    ELSE 0

\* C4 as stated: once a call has folded a candidate list, every later call
\* with the same list reads no config file.
C4_FoldedOnceNeverReadAgain ==
    [][(CacheCall /\ Recency(ComputeConfigFileList(fs)) # 0) => last'.reads = <<>>]_vars

\* C4 amended: a call whose candidate list is among the LruMaxSize lists
\* resolved most recently reads no config file and uses the dict the cache
\* holds for the list, whatever the files hold now; a call with any other
\* list reads its files.
C4_FoldedAndKeptNeverReadAgain ==
    [][CacheCall =>
          LET config_files == ComputeConfigFileList(fs)
          IN  IF Recency(config_files) \in 1..LruMaxSize
              THEN /\ last'.reads = <<>>
                   /\ last'.folded = cache[LruIndex(cache, config_files)].value
              ELSE last'.reads = config_files]_vars

\* C4's case: the home file was rewritten after the list was folded, and the
\* call that followed read nothing and used the old content
C4_Witness ==
    /\ ncalls > 1
    /\ last.config_files = ComputeConfigFileList(fs)
    /\ last.reads = <<>>
    /\ last.folded["url"] = PyStr("http://v0")
    /\ BuildConfigFromFiles(fs, last.config_files)["url"] = PyStr("http://v1")

====
